---------------------------- MODULE Spec2Model ----------------------------
(***************************************************************************)
(* The Blog application of quantBlog: the two Django models Post and       *)
(* Comment (Blog/models.py), the User model they reference, and the admin  *)
(* console registered for them (Blog/admin.py).                            *)
(*                                                                         *)
(* The state is the content of the three tables plus the model instances   *)
(* that sessions hold in memory between loading a record and saving it.    *)
(* Every operation is one database statement (or one admin request) and is *)
(* one action.  Operations are offered at two levels:                      *)
(*   via = "orm"   : Model.save() / objects.create(), which runs no        *)
(*                   validators, only the constraints of the tables;       *)
(*   via = "admin" : the add / change form of the ModelAdmin, which runs   *)
(*                   the field validators (choices, existing foreign key,  *)
(*                   unique) before it calls save().                       *)
(*                                                                         *)
(* Of a Post the fields title, slug, author, created_date, updated_date    *)
(* and status are kept; content, excerpt and featured_image are plain      *)
(* editable columns that behave as title does.                             *)
(***************************************************************************)
EXTENDS Integers, FiniteSets, TLC

\* ------------------------------------------------------------------ bounds
MaxUsers    == 2      \* User rows ever inserted
MaxPosts    == 2      \* Post rows ever inserted
MaxComments == 2      \* Comment rows ever inserted
MaxTime     == 4      \* stamps the clock hands out
MaxLoads    == 2      \* instances loaded by the sessions

\* The workloads explored.  A run draws one of them at the start and keeps
\* it: a database that is filled, moderated and emptied without any session
\* holding an instance; a Post and a Comment that two sessions edit; Posts
\* without Comments that two sessions edit.
Quotas ==
    {[posts |-> MaxPosts, comments |-> MaxComments, time |-> MaxTime,
      loads |-> 0],
     [posts |-> MaxPosts - 1, comments |-> MaxComments - 1,
      time |-> MaxTime - 1, loads |-> MaxLoads],
     [posts |-> MaxPosts, comments |-> 0, time |-> MaxTime - 1,
      loads |-> MaxLoads]}

\* ------------------------------------------------------------- value sets
UserIds    == 1..MaxUsers
PostIds    == 1..MaxPosts
CommentIds == 1..MaxComments
Sessions   == {"s1", "s2"}
Vias       == {"orm", "admin"}
Titles     == {"Hello World"}
Slugs      == {"hello-world", "second"}
NewTexts   == {"Nice!"}
Texts      == NewTexts \cup {"edited"}

\* Post.status: choices and default
StatusChoices == {"draft", "published"}
StatusDefault == "draft"
\* the values a caller may hand in for status: the choices and one other
StatusInputs  == StatusChoices \cup {"archived"}
\* (mutant) is_approved with default=True
IsApprovedDefaultTrue == TRUE

\* Comment.is_approved: default
IsApprovedDefault == FALSE

VARIABLES
    users,        \* set of primary keys of the stored User rows
    posts,        \* stored Post rows: primary key -> row
    comments,     \* stored Comment rows: primary key -> row
    now,          \* the clock: the last value timezone.now() returned
    nextUser,     \* next primary key of the User table
    nextPost,     \* next primary key of the Post table
    nextComment,  \* next primary key of the Comment table
    session,      \* per session, the model instance it loaded (if any)
    loads,        \* number of instances loaded so far
    quota,        \* the workload of the run, one of Quotas
    last          \* the last operation executed and its outcome

vars == <<users, posts, comments, now, nextUser, nextPost, nextComment,
          session, loads, quota, last>>

db == <<users, posts, comments>>

\* ---------------------------------------------------------------- helpers
NoRows == [x \in {} |-> x]

Restrict(f, S) == [x \in S |-> f[x]]

Put(f, k, row) == [x \in DOMAIN f \cup {k} |-> IF x = k THEN row ELSE f[x]]

\* of the rows a delete removes, the keys they held and referenced
PostRefs(rows) == [k \in DOMAIN rows |-> [author |-> rows[k].author]]

CommentRefs(rows) ==
    [k \in DOMAIN rows |-> [post |-> rows[k].post, author |-> rows[k].author]]

NoInstance == [post |-> NoRows, comment |-> NoRows]

\* the record of an operation: what was called, on which primary key, how it
\* ended, and the stored rows it touched as they were before it
Outcome(op, pk, res, codes) ==
    [op |-> op, pk |-> pk, res |-> res, codes |-> codes,
     sel |-> {}, posts0 |-> NoRows, comments0 |-> NoRows]

Init ==
    /\ users = {}
    /\ posts = NoRows
    /\ comments = NoRows
    /\ now = 0
    /\ nextUser = 1
    /\ nextPost = 1
    /\ nextComment = 1
    /\ session = [s \in Sessions |-> NoInstance]
    /\ loads = 0
    /\ quota \in Quotas
    /\ last = Outcome("init", 0, "ok", {})


\* the clock is read: the reading is later than every earlier one
Tick == now + 1

\* ------------------------------------------------- constraints of the tables
\* (mutant) the slug column without its unique index
SlugNeverTaken(pk, slug) == FALSE

\* slug = SlugField(unique=True): another stored Post holds the slug
SlugTaken(pk, slug) ==
    \E q \in DOMAIN posts \ {pk} : posts[q].slug = slug

\* author = ForeignKey(User): the referenced User row must exist
AuthorMissing(author) == author \notin users

\* (mutant) the post column without its foreign key constraint
PostNeverMissing(post) == FALSE

\* post = ForeignKey(Post): the referenced Post row must exist
PostMissing(post) == post \notin DOMAIN posts

\* what the Post table answers to an INSERT or UPDATE of row under key pk:
\* the constraint that fails, if any.  The unique index is checked by the
\* statement, the foreign key when the transaction commits.
PostIntegrity(pk, row) ==
    IF SlugTaken(pk, row.slug) THEN {"unique"}
    ELSE IF AuthorMissing(row.author) THEN {"foreign_key"}
    ELSE {}

\* what the Comment table answers to an INSERT or UPDATE of row
CommentIntegrity(row) ==
    IF PostMissing(row.post) \/ AuthorMissing(row.author) THEN {"foreign_key"}
    ELSE {}

\* ------------------------------------------------ validators of the admin forms
\* (mutant) the status field without its choices
PostFormErrorsNoChoices(pk, row) ==
    (IF AuthorMissing(row.author) THEN {"foreign_key"} ELSE {})
    \cup (IF SlugTaken(pk, row.slug) THEN {"unique"} ELSE {})

\* (mutant) a form that does not let a published Post return to draft
PostFormErrorsOneWay(pk, row) ==
    (IF row.status \notin StatusChoices THEN {"invalid_choice"} ELSE {})
    \cup (IF pk \in DOMAIN posts /\ posts[pk].status = "published"
              /\ row.status = "draft"
           THEN {"invalid_choice"} ELSE {})
    \cup (IF AuthorMissing(row.author) THEN {"foreign_key"} ELSE {})
    \cup (IF SlugTaken(pk, row.slug) THEN {"unique"} ELSE {})

\* the ModelForm of PostAdmin reports every field that fails: status is a
\* choice field, author a model choice field, slug is checked by
\* validate_unique
PostFormErrors(pk, row) ==
    (IF row.status \notin StatusChoices THEN {"invalid_choice"} ELSE {})
    \cup (IF AuthorMissing(row.author) THEN {"foreign_key"} ELSE {})
    \cup (IF SlugTaken(pk, row.slug) THEN {"unique"} ELSE {})

\* the ModelForm of CommentAdmin: post and author are model choice fields
CommentFormErrors(pk, row) ==
    IF PostMissing(row.post) \/ AuthorMissing(row.author) THEN {"foreign_key"}
    ELSE {}

\* the outcome of writing a Post row: <<result, errors>>.  The admin form
\* validates before it calls save(); save() itself runs no validator.
PostWriteOutcome(via, pk, row) ==
    IF via = "admin" /\ PostFormErrors(pk, row) # {}
    THEN <<"ValidationError", PostFormErrors(pk, row)>>
    ELSE IF PostIntegrity(pk, row) # {}
    THEN <<"IntegrityError", PostIntegrity(pk, row)>>
    ELSE <<"ok", {}>>

\* the outcome of writing a Comment row: <<result, errors>>
CommentWriteOutcome(via, pk, row) ==
    IF via = "admin" /\ CommentFormErrors(pk, row) # {}
    THEN <<"ValidationError", CommentFormErrors(pk, row)>>
    ELSE IF CommentIntegrity(row) # {}
    THEN <<"IntegrityError", CommentIntegrity(row)>>
    ELSE <<"ok", {}>>

\* the clock after a write that takes its date from it: a write that stores
\* its row is stamped with a reading later than every earlier stamp
ClockAfter(res) == IF res = "ok" THEN Tick ELSE now

\* ----------------------------------------------------------- on_delete=CASCADE
\* (mutant) Post.author with an on_delete that removes nothing
PostsOfNoAuthor(U) == {}

\* the Posts that reference one of the Users in U
PostsOfAuthors(U) == {p \in DOMAIN posts : posts[p].author \in U}

\* the Comments that reference one of the Users in U or one of the Posts in P
CommentsOf(U, P) ==
    {c \in DOMAIN comments : comments[c].author \in U \/ comments[c].post \in P}

\* ------------------------------------------------------------------- Users
CreateUser ==
    /\ nextUser <= MaxUsers
    /\ users' = users \cup {nextUser}
    /\ nextUser' = nextUser + 1
    /\ last' = Outcome("create_user", nextUser, "ok", {})
    /\ UNCHANGED <<posts, comments, now, nextPost, nextComment, session, loads, quota>>

DeleteUser(u) ==
    /\ u \in users
    /\ LET rp == PostsOfAuthors({u})
           rc == CommentsOf({u}, rp)
       IN  /\ users' = users \ {u}
           /\ posts' = Restrict(posts, DOMAIN posts \ rp)
           /\ comments' = Restrict(comments, DOMAIN comments \ rc)
           /\ last' = [Outcome("delete_user", u, "ok", {})
                         EXCEPT !.posts0 = PostRefs(Restrict(posts, rp)),
                                !.comments0 = CommentRefs(Restrict(comments, rc))]
    /\ UNCHANGED <<now, nextUser, nextPost, nextComment, session, loads, quota>>

\* ------------------------------------------------------------------- Posts
\* status as stored by a create: the value given, else the default
StatusOf(given) == IF given = {} THEN StatusDefault ELSE CHOOSE v \in given : TRUE

NewPost(title, slug, author, given) ==
    [title |-> title, slug |-> slug, author |-> author,
     created_date |-> Tick, updated_date |-> Tick, status |-> StatusOf(given)]

CreatePost(via, title, slug, author, given) ==
    /\ nextPost <= quota.posts
    /\ now < quota.time
    /\ LET pk  == nextPost
           row == NewPost(title, slug, author, given)
           out == PostWriteOutcome(via, pk, row)
       IN  /\ IF out[1] = "ok"
              THEN /\ posts' = Put(posts, pk, row)
                   /\ nextPost' = nextPost + 1
              ELSE UNCHANGED <<posts, nextPost>>
           /\ now' = ClockAfter(out[1])
           /\ last' = Outcome("create_post", pk, out[1], out[2])
    /\ UNCHANGED <<users, comments, nextUser, nextComment, session, loads, quota>>

LoadPost(s, p) ==
    /\ p \in DOMAIN posts
    /\ loads < quota.loads
    /\ loads' = loads + 1
    /\ session' = [session EXCEPT ![s] =
                     [post |-> Restrict(posts, {p}), comment |-> NoRows]]
    /\ last' = Outcome("load_post", p, "ok", {})
    /\ UNCHANGED <<users, posts, comments, now, nextUser, nextPost, nextComment, quota>>

\* the values a session may assign to the editable fields of a loaded Post
\* before it saves: none, or one field changed
PostEdits(inst) ==
    {inst}
    \cup {[inst EXCEPT !.title = x] : x \in Titles}
    \cup {[inst EXCEPT !.slug = x] : x \in Slugs}
    \cup {[inst EXCEPT !.author = x] : x \in UserIds}
    \cup {[inst EXCEPT !.status = x] : x \in StatusInputs}

\* (mutant) updated_date and created_date without auto_now / auto_now_add
PostRowAsHeld(pk, inst, add) == inst

\* the row save() writes for instance inst: auto_now sets updated_date to the
\* clock on every save, auto_now_add sets created_date when the row is added
PostRowToSave(pk, inst, add) ==
    [inst EXCEPT !.updated_date = Tick,
                 !.created_date = IF add THEN Tick ELSE @]

\* the primary key of the Post instance session s holds
HeldPost(s) == CHOOSE k \in DOMAIN session[s].post : TRUE

\* the instance save() is called on. Code that holds an instance saves that
\* instance. The admin change view fetches the row again and assigns the
\* fields of the form to it, which are the fieldsets: created_date and
\* updated_date are readonly_fields and keep what the row has.
PostToSave(via, pk, inst) ==
    IF via = "admin" /\ pk \in DOMAIN posts
    THEN [inst EXCEPT !.created_date = posts[pk].created_date,
                      !.updated_date = posts[pk].updated_date]
    ELSE inst

\* what session s may hand to SavePost
PostInputs(s) ==
    UNION {PostEdits(session[s].post[k]) : k \in DOMAIN session[s].post}

SavePost(s, via, inst) ==
    /\ session[s].post # NoRows
    /\ now < quota.time
    /\ LET pk     == HeldPost(s)
           stored == pk \in DOMAIN posts
           row    == PostRowToSave(pk, PostToSave(via, pk, inst), ~stored)
           out    == IF via = "admin" /\ ~stored
                     THEN <<"DoesNotExist", {}>>
                     ELSE PostWriteOutcome(via, pk, row)
       IN  /\ inst \in PostEdits(session[s].post[pk])
           /\ posts' = IF out[1] = "ok" THEN Put(posts, pk, row) ELSE posts
           /\ now' = ClockAfter(out[1])
           /\ last' = [Outcome("save_post", pk, out[1], out[2])
                         EXCEPT !.posts0 = Restrict(posts, {pk} \cap DOMAIN posts)]
    /\ session' = [session EXCEPT ![s] = NoInstance]
    /\ UNCHANGED <<users, comments, nextUser, nextPost, nextComment, loads, quota>>

DeletePost(p) ==
    /\ p \in DOMAIN posts
    /\ LET rc == CommentsOf({}, {p})
       IN  /\ posts' = Restrict(posts, DOMAIN posts \ {p})
           /\ comments' = Restrict(comments, DOMAIN comments \ rc)
           /\ last' = [Outcome("delete_post", p, "ok", {})
                         EXCEPT !.posts0 = PostRefs(Restrict(posts, {p})),
                                !.comments0 = CommentRefs(Restrict(comments, rc))]
    /\ UNCHANGED <<users, now, nextUser, nextPost, nextComment, session, loads, quota>>

\* ---------------------------------------------------------------- Comments
\* is_approved as stored by a create: the value given, else the default
IsApprovedOf(given) ==
    IF given = {} THEN IsApprovedDefault ELSE CHOOSE v \in given : TRUE

NewComment(post, author, content, given) ==
    [post |-> post, author |-> author, content |-> content,
     created_date |-> Tick, is_approved |-> IsApprovedOf(given)]

CreateComment(via, post, author, content, given) ==
    /\ nextComment <= quota.comments
    /\ now < quota.time
    /\ LET pk  == nextComment
           row == NewComment(post, author, content, given)
           out == CommentWriteOutcome(via, pk, row)
       IN  /\ IF out[1] = "ok"
              THEN /\ comments' = Put(comments, pk, row)
                   /\ nextComment' = nextComment + 1
              ELSE UNCHANGED <<comments, nextComment>>
           /\ now' = ClockAfter(out[1])
           /\ last' = Outcome("create_comment", pk, out[1], out[2])
    /\ UNCHANGED <<users, posts, nextUser, nextPost, session, loads, quota>>

LoadComment(s, c) ==
    /\ c \in DOMAIN comments
    /\ loads < quota.loads
    /\ loads' = loads + 1
    /\ session' = [session EXCEPT ![s] =
                     [post |-> NoRows, comment |-> Restrict(comments, {c})]]
    /\ last' = Outcome("load_comment", c, "ok", {})
    /\ UNCHANGED <<users, posts, comments, now, nextUser, nextPost, nextComment, quota>>

\* the values a session may assign to the editable fields of a loaded
\* Comment before it saves: none, or one field changed
CommentEdits(inst) ==
    {inst}
    \cup {[inst EXCEPT !.post = x] : x \in PostIds}
    \cup {[inst EXCEPT !.author = x] : x \in UserIds}
    \cup {[inst EXCEPT !.content = x] : x \in Texts}
    \cup {[inst EXCEPT !.is_approved = x] : x \in BOOLEAN}

\* (mutant) a save that writes the edited columns but not is_approved
CommentRowKeepsFlag(pk, inst, add) ==
    [inst EXCEPT !.is_approved =
                    IF pk \in DOMAIN comments THEN comments[pk].is_approved
                    ELSE @,
                 !.created_date = IF add THEN Tick ELSE @]

\* the row save() writes for instance inst: every field of the instance;
\* auto_now_add sets created_date when the row is added
CommentRowToSave(pk, inst, add) ==
    [inst EXCEPT !.created_date = IF add THEN Tick ELSE @]

\* the primary key of the Comment instance session s holds
HeldComment(s) == CHOOSE k \in DOMAIN session[s].comment : TRUE

\* the instance save() is called on: the admin change view fetches the row
\* again and assigns the fields of the form, which has every editable field;
\* created_date (auto_now_add) is not editable and keeps what the row has
CommentToSave(via, pk, inst) ==
    IF via = "admin" /\ pk \in DOMAIN comments
    THEN [inst EXCEPT !.created_date = comments[pk].created_date]
    ELSE inst

\* what session s may hand to SaveComment
CommentInputs(s) ==
    UNION {CommentEdits(session[s].comment[k]) :
             k \in DOMAIN session[s].comment}

SaveComment(s, via, inst) ==
    /\ session[s].comment # NoRows
    /\ LET pk     == HeldComment(s)
           stored == pk \in DOMAIN comments
           row    == CommentRowToSave(pk, CommentToSave(via, pk, inst), ~stored)
           out    == IF via = "admin" /\ ~stored
                     THEN <<"DoesNotExist", {}>>
                     ELSE CommentWriteOutcome(via, pk, row)
       IN  /\ inst \in CommentEdits(session[s].comment[pk])
           /\ stored \/ via = "admin" \/ now < quota.time
           /\ comments' = IF out[1] = "ok" THEN Put(comments, pk, row)
                          ELSE comments
           /\ now' = IF stored THEN now ELSE ClockAfter(out[1])
           /\ last' = [Outcome("save_comment", pk, out[1], out[2])
                         EXCEPT !.comments0 =
                                    Restrict(comments, {pk} \cap DOMAIN comments)]
    /\ session' = [session EXCEPT ![s] = NoInstance]
    /\ UNCHANGED <<users, posts, nextUser, nextPost, nextComment, loads, quota>>

DeleteComment(c) ==
    /\ c \in DOMAIN comments
    /\ comments' = Restrict(comments, DOMAIN comments \ {c})
    /\ last' = [Outcome("delete_comment", c, "ok", {})
                  EXCEPT !.comments0 = CommentRefs(Restrict(comments, {c}))]
    /\ UNCHANGED <<users, posts, now, nextUser, nextPost, nextComment, session,
                   loads, quota>>

\* ------------------------------------------------- CommentAdmin.approve_comments
\* (mutant) an update of the whole table instead of the selected queryset
ApprovedRowsAll(sel) ==
    [c \in DOMAIN comments |-> [comments[c] EXCEPT !.is_approved = TRUE]]

\* (mutant) a loop that saves the selected Comments one statement at a
\* time: the table after its first statement
ApprovedRowsOneByOne(sel) ==
    [c \in DOMAIN comments |->
        IF sel \cap DOMAIN comments # {}
           /\ c = CHOOSE m \in sel \cap DOMAIN comments :
                     \A k \in sel \cap DOMAIN comments : m <= k
        THEN [comments[c] EXCEPT !.is_approved = TRUE]
        ELSE comments[c]]

\* queryset.update(is_approved=True): the Comment table after the one UPDATE
\* statement over the selected primary keys
ApprovedRows(sel) ==
    [c \in DOMAIN comments |->
        IF c \in sel THEN [comments[c] EXCEPT !.is_approved = TRUE]
        ELSE comments[c]]

approve_comments(sel) ==
    /\ sel # {}
    /\ comments' = ApprovedRows(sel)
    /\ last' = [Outcome("approve_comments", 0, "ok", {})
                  EXCEPT !.sel = sel,
                         !.comments0 = Restrict(comments, sel \cap DOMAIN comments)]
    /\ UNCHANGED <<users, posts, now, nextUser, nextPost, nextComment, session,
                   loads, quota>>

\* ------------------------------------------------------------ specification
Given(S) == {{}} \cup {{v} : v \in S}

Next ==
    \/ CreateUser
    \/ \E u \in UserIds : DeleteUser(u)
    \/ \E via \in Vias, title \in Titles, slug \in Slugs, author \in UserIds,
          given \in Given(StatusInputs) :
          CreatePost(via, title, slug, author, given)
    \/ \E s \in Sessions, p \in PostIds : LoadPost(s, p)
    \/ \E s \in Sessions, via \in Vias :
          \E inst \in PostInputs(s) : SavePost(s, via, inst)
    \/ \E p \in PostIds : DeletePost(p)
    \/ \E via \in Vias, post \in PostIds, author \in UserIds,
          content \in NewTexts,
          given \in Given(BOOLEAN) :
          CreateComment(via, post, author, content, given)
    \/ \E s \in Sessions, c \in CommentIds : LoadComment(s, c)
    \/ \E s \in Sessions, via \in Vias :
          \E inst \in CommentInputs(s) : SaveComment(s, via, inst)
    \/ \E c \in CommentIds : DeleteComment(c)
    \/ \E sel \in SUBSET CommentIds : approve_comments(sel)

Spec == Init /\ [][Next]_vars

\* ===================================================================
\* Properties
\* ===================================================================
Failed == last'.res \in {"IntegrityError", "ValidationError"}

StoredUnchanged == UNCHANGED <<users, posts, comments>>

\* a save of the instance session s holds reaches the Post table: the admin
\* answers a change request for a row that is gone with "does not exist" and
\* calls no save()
PostSaveReachesTable(s, via) == via = "orm" \/ HeldPost(s) \in DOMAIN posts

UniqueSlugs ==
    \A p \in DOMAIN posts : \A q \in DOMAIN posts :
        p # q => posts[p].slug # posts[q].slug

\* C1: no two stored Posts ever have the same slug; a create or a save that
\* would give a Post a slug another stored Post holds fails with a
\* uniqueness error and leaves every stored record as it was.
C1_SlugUnique ==
    [][ /\ UniqueSlugs'
        /\ last'.op = "create_post" =>
              \A via \in Vias, title \in Titles, slug \in Slugs,
                 author \in UserIds, given \in Given(StatusInputs) :
                 (SlugTaken(nextPost, slug)
                    /\ CreatePost(via, title, slug, author, given))
                 => Failed /\ "unique" \in last'.codes /\ StoredUnchanged
        /\ last'.op = "save_post" =>
              \A s \in Sessions, via \in Vias : \A inst \in PostInputs(s) :
                 (SlugTaken(HeldPost(s), inst.slug)
                    /\ PostSaveReachesTable(s, via)
                    /\ SavePost(s, via, inst))
                 => Failed /\ "unique" \in last'.codes /\ StoredUnchanged
      ]_vars

\* C1 witness: a write of a Post was refused for its slug while the Post
\* that holds the slug is stored.
C1_Witness ==
    /\ last.op \in {"create_post", "save_post"}
    /\ last.res \in {"IntegrityError", "ValidationError"}
    /\ "unique" \in last.codes
    /\ posts # NoRows

RefIntegrity ==
    /\ \A p \in DOMAIN posts : posts[p].author \in users
    /\ \A c \in DOMAIN comments :
          comments[c].post \in DOMAIN posts /\ comments[c].author \in users

\* C2: every stored Comment references a stored Post and a stored User and
\* every stored Post a stored User, whatever was created, saved and deleted;
\* creating a Comment whose post or author is not stored fails with a
\* referential-integrity error and stores nothing.
C2_References ==
    [][ /\ RefIntegrity'
        /\ last'.op = "create_comment" =>
              \A via \in Vias, post \in PostIds, author \in UserIds,
                 content \in NewTexts, given \in Given(BOOLEAN) :
                 ((PostMissing(post) \/ AuthorMissing(author))
                    /\ CreateComment(via, post, author, content, given))
                 => Failed /\ "foreign_key" \in last'.codes /\ StoredUnchanged
      ]_vars

\* C2 witness: a Comment was refused for a missing reference while Comments
\* are stored, after a User or a Post was deleted.
C2_Witness ==
    /\ last.op = "create_comment"
    /\ last.res \in {"IntegrityError", "ValidationError"}
    /\ "foreign_key" \in last.codes
    /\ comments # NoRows
    /\ nextPost > Cardinality(DOMAIN posts) + 1

\* C3: deleting a User removes the Posts the User authored, the Comments on
\* those Posts and the Comments the User authored; deleting a Post removes
\* its Comments; nothing else is removed or modified.
C3_Cascade ==
    [][ /\ last'.op = "delete_user" =>
              LET u    == last'.pk
                  gone == {p \in DOMAIN posts : posts[p].author = u}
                  keep == {c \in DOMAIN comments :
                             comments[c].author # u
                             /\ comments[c].post \notin gone}
              IN  /\ DeleteUser(u)
                  /\ users' = users \ {u}
                  /\ posts' = Restrict(posts, DOMAIN posts \ gone)
                  /\ comments' = Restrict(comments, keep)
        /\ last'.op = "delete_post" =>
              LET p == last'.pk
              IN  /\ DeletePost(p)
                  /\ users' = users
                  /\ posts' = Restrict(posts, DOMAIN posts \ {p})
                  /\ comments' = Restrict(comments,
                         {c \in DOMAIN comments : comments[c].post # p})
      ]_vars

\* C3 witness: a User was deleted; with the User went a Post, a Comment of
\* another User on that Post and a Comment of the User on a Post of another
\* User, and that other Post is still stored.
C3_Witness ==
    /\ last.op = "delete_user"
    /\ last.posts0 # NoRows
    /\ \E c \in DOMAIN last.comments0 :
          /\ last.comments0[c].author # last.pk
          /\ last.comments0[c].post \in DOMAIN last.posts0
    /\ \E c \in DOMAIN last.comments0 :
          /\ last.comments0[c].author = last.pk
          /\ last.comments0[c].post \in DOMAIN posts

\* C4: approve_comments sets is_approved on every selected Comment and
\* changes nothing else: the other Comments keep their flag, no Comment
\* changes post, author, content or created_date, no Post and no User
\* changes, no row is created or deleted.
C4_ApproveFrame ==
    [][ last'.op = "approve_comments" =>
          /\ approve_comments(last'.sel)
          /\ users' = users
          /\ posts' = posts
          /\ DOMAIN comments' = DOMAIN comments
          /\ \A c \in DOMAIN comments :
                /\ c \in last'.sel => comments'[c].is_approved
                /\ c \notin last'.sel =>
                      comments'[c].is_approved = comments[c].is_approved
                /\ comments'[c].post = comments[c].post
                /\ comments'[c].author = comments[c].author
                /\ comments'[c].content = comments[c].content
                /\ comments'[c].created_date = comments[c].created_date
      ]_vars

\* C4 witness: the action approved a Comment that was not approved, and an
\* unselected Comment is still not approved.
C4_Witness ==
    /\ last.op = "approve_comments"
    /\ \E c \in DOMAIN last.comments0 :
          ~last.comments0[c].is_approved /\ comments[c].is_approved
    /\ \E c \in DOMAIN comments \ last.sel : ~comments[c].is_approved

\* session s holds an instance of the Post as it is stored: the row was not
\* deleted (and inserted again) since the session loaded it
HoldsStoredPost(s) ==
    /\ HeldPost(s) \in DOMAIN posts
    /\ session[s].post[HeldPost(s)].created_date
          = posts[HeldPost(s)].created_date

C6_Original ==
    [][ /\ last'.op = "create_post" =>
              \A via \in Vias, title \in Titles, slug \in Slugs,
                 author \in UserIds :
                 (CreatePost(via, title, slug, author, {})
                    /\ last'.res = "ok")
                 => posts'[nextPost].status = "draft"
        /\ (last'.op = "create_comment" /\ last'.res = "ok") =>
              ~comments'[nextComment].is_approved
      ]_vars

\* C6 amended: a Post created without a status has status "draft", and a
\* Comment created without an is_approved value has is_approved = False.
C6_Defaults ==
    [][ /\ last'.op = "create_post" =>
              \A via \in Vias, title \in Titles, slug \in Slugs,
                 author \in UserIds :
                 (CreatePost(via, title, slug, author, {})
                    /\ last'.res = "ok")
                 => posts'[nextPost].status = "draft"
        /\ last'.op = "create_comment" =>
              \A via \in Vias, post \in PostIds, author \in UserIds,
                 content \in NewTexts :
                 (CreateComment(via, post, author, content, {})
                    /\ last'.res = "ok")
                 => ~comments'[nextComment].is_approved
      ]_vars

\* C6 witness: a Comment was created unapproved on a Post that is a draft.
C6_Witness ==
    /\ last.op = "create_comment"
    /\ last.res = "ok"
    /\ ~comments[last.pk].is_approved
    /\ posts[comments[last.pk].post].status = "draft"

\* C7: the bulk approve is one step: in the state it leaves, and so in every
\* state another session can see, every selected Comment that is stored is
\* approved.
C7_ApproveAtomic ==
    last.op = "approve_comments" =>
        \A c \in last.sel \cap DOMAIN comments : comments[c].is_approved

\* C7 witness: two Comments that were not approved were selected and are
\* approved.
C7_Witness ==
    /\ last.op = "approve_comments"
    /\ Cardinality(last.sel \cap DOMAIN comments) >= 2
    /\ \A c \in DOMAIN last.comments0 : ~last.comments0[c].is_approved
    /\ \A c \in last.sel \cap DOMAIN comments : comments[c].is_approved

\* C8: a save of a stored Post or Comment whose values are valid succeeds
\* whatever other sessions did to the row since the session loaded it, and
\* the row then stored has the saving session's value in every editable
\* field, the fields the session did not change included.
C8_LastWriteWins ==
    [][ /\ last'.op = "save_comment" =>
              \A s \in Sessions, via \in Vias : \A inst \in CommentInputs(s) :
                 (/\ HeldComment(s) \in DOMAIN comments
                  /\ inst.post \in DOMAIN posts
                  /\ inst.author \in users
                  /\ SaveComment(s, via, inst))
                 => /\ last'.res = "ok"
                    /\ comments'[HeldComment(s)].post = inst.post
                    /\ comments'[HeldComment(s)].author = inst.author
                    /\ comments'[HeldComment(s)].content = inst.content
                    /\ comments'[HeldComment(s)].is_approved = inst.is_approved
        /\ last'.op = "save_post" =>
              \A s \in Sessions, via \in Vias : \A inst \in PostInputs(s) :
                 (/\ HeldPost(s) \in DOMAIN posts
                  /\ inst.author \in users
                  /\ ~SlugTaken(HeldPost(s), inst.slug)
                  /\ (via = "admin" => inst.status \in StatusChoices)
                  /\ SavePost(s, via, inst))
                 => /\ last'.res = "ok"
                    /\ posts'[HeldPost(s)].title = inst.title
                    /\ posts'[HeldPost(s)].slug = inst.slug
                    /\ posts'[HeldPost(s)].author = inst.author
                    /\ posts'[HeldPost(s)].status = inst.status
      ]_vars

\* C8 witness: a Comment was approved after a session had loaded it; the
\* session then saved it with another content, and the stored Comment is
\* not approved.
C8_Witness ==
    /\ last.op = "save_comment"
    /\ last.res = "ok"
    /\ last.pk \in DOMAIN last.comments0
    /\ last.comments0[last.pk].is_approved
    /\ ~comments[last.pk].is_approved
    /\ comments[last.pk].content # last.comments0[last.pk].content

\* C9 as stated: every stored Post has a status among the choices.
C9_Original ==
    \A p \in DOMAIN posts : posts[p].status \in StatusChoices

\* C9 amended: the admin form rejects a status that is not among the
\* choices with a validation error and leaves the stored records unchanged,
\* and a Post the admin form stores has a status among the choices.
C9_AdminChoices ==
    [][ /\ last'.op = "create_post" =>
              \A title \in Titles, slug \in Slugs, author \in UserIds,
                 given \in Given(StatusInputs) :
                 CreatePost("admin", title, slug, author, given) =>
                    IF StatusOf(given) \in StatusChoices
                    THEN last'.res = "ok" =>
                            posts'[nextPost].status \in StatusChoices
                    ELSE /\ last'.res = "ValidationError"
                         /\ "invalid_choice" \in last'.codes
                         /\ StoredUnchanged
        /\ last'.op = "save_post" =>
              \A s \in Sessions : \A inst \in PostInputs(s) :
                 (HeldPost(s) \in DOMAIN posts /\ SavePost(s, "admin", inst))
                 => IF inst.status \in StatusChoices
                    THEN last'.res = "ok" =>
                            posts'[HeldPost(s)].status \in StatusChoices
                    ELSE /\ last'.res = "ValidationError"
                         /\ "invalid_choice" \in last'.codes
                         /\ StoredUnchanged
      ]_vars

\* C9 witness: the admin form refused a status that is not a choice.
C9_Witness ==
    /\ last.op \in {"create_post", "save_post"}
    /\ last.res = "ValidationError"
    /\ "invalid_choice" \in last.codes

\* C10: status and is_approved have no transition rule: for every stored
\* Post and either choice of status, and for every stored Comment and either
\* value of is_approved, a save of the row with that value is accepted.
C10_NoTransitionRule ==
    /\ \A p \in DOMAIN posts, v \in StatusChoices, via \in Vias :
          PostWriteOutcome(via, p,
              PostRowToSave(p, [posts[p] EXCEPT !.status = v], FALSE))[1] = "ok"
    /\ \A c \in DOMAIN comments, b \in BOOLEAN, via \in Vias :
          CommentWriteOutcome(via, c,
              CommentRowToSave(c, [comments[c] EXCEPT !.is_approved = b],
                               FALSE))[1] = "ok"

\* C10 witness: a published Post was saved as a draft.
C10_Witness ==
    /\ last.op = "save_post"
    /\ last.res = "ok"
    /\ last.pk \in DOMAIN last.posts0
    /\ last.posts0[last.pk].status = "published"
    /\ posts[last.pk].status = "draft"

=============================================================================
